---- MODULE Spec2Model ----
(***************************************************************************)
(* The adaptive admission controller of graphql/ratelimit.go               *)
(* (RatelimitObject) driven by concurrent callers.  Every caller runs      *)
(*     req, err := rObj.ServeRequest(true); rObj.EndRequest(req, state)    *)
(* in a loop.  A critical section of the source is two steps here: the     *)
(* mux.Lock() and the locked body up to its mux.Unlock().                  *)
(*                                                                         *)
(* Durations are whole time units.  clock[t] is the wall clock measured    *)
(* from the instant caller t last executed `now := time.Now()`, so that    *)
(* the handle's startedAt is 0 on that clock and time.Since(startedAt) is  *)
(* clock[t].  Tick lets one time unit pass for every caller at once.       *)
(* ActiveRequest.predictedAt is written by newRequest and read nowhere in  *)
(* the package; the handle of the model carries startedAt only.            *)
(*                                                                         *)
(* Spec is that loop, SpecFair the loop under a fair scheduler and         *)
(* SpecContended the fair loop on a controller with a single place.        *)
(* SpecConstruct is the two constructors applied to any arguments.         *)
(* SpecPairs is the loop of two callers with the EndRequest calls that     *)
(* end in endRequestStateOK counted.  SpecUnit is one EndRequest, a second *)
(* one with the same handle and initiate() on a controller in any state.   *)
(* SpecHTTP is graphql/http.go's httpHandler.ServeHTTP, one HTTP request   *)
(* per thread, calling the same controller steps and the two accessors.    *)
(***************************************************************************)
EXTENDS Integers, FiniteSets, Sequences, TLC

\* ----- bounds of the model
MaxThreads == 2
MaxCeiling == 2
MaxWait == 1
MaxElapsed == 2
MaxArg == 4
MaxPairs == 4

\* ----- constants of the source
maxSimultaneousRequestsDefault == 15
minSimultaneousRequestsDefault == 2
waitTimeDefault == 3
endRequestStateOK == 0
endRequestStateError == 1
endRequestStateCanceled == 2

EndStates == {endRequestStateOK, endRequestStateError, endRequestStateCanceled}

Threads == 1..MaxThreads
NoThread == 0

NoError == "nil"
LimitError == "limit is reached, please try again later"

\* a nil *ActiveRequest
NilRequest == [valid |-> FALSE, startedAt |-> 0]

\* &ActiveRequest{startedAt: now, predictedAt: predictedAt}
ActiveRequest(now, predictedAt) == [valid |-> TRUE, startedAt |-> now]

\* Go's integer division truncates toward zero
GoDiv(a, b) == IF a >= 0 THEN a \div b ELSE -((-a) \div b)

VARIABLES
    activeRequestsCount,      \* RatelimitObject.activeRequestsCount
    maxRequests,              \* RatelimitObject.maxRequests
    minRequests,              \* RatelimitObject.minRequests
    currentMaxRequestsLevel,  \* RatelimitObject.currentMaxRequestsLevel
    predictedDuration,        \* RatelimitObject.predictedDuration
    waitTime,                 \* RatelimitObject.waitTime
    mux,                      \* RatelimitObject.mux: the caller holding it, or NoThread
    pc,                       \* where each caller is
    isInitial,                \* the isInitial argument of the running ServeRequest
    dur,                      \* the local dur handed to time.Sleep
    sleepLeft,                \* time left of a running time.Sleep
    clock,                    \* time since the caller's `now := time.Now()`
    req,                      \* the *ActiveRequest ServeRequest returned
    err,                      \* the error ServeRequest returned
    sleeps,                   \* history: time.Sleep calls of the current ServeRequest
    slept,                    \* history: time slept in the current ServeRequest
    last,                     \* history: the locked section the latest step ran, if
                              \* any, and what it found on entry
    call,                     \* history: the constructor call that built rObj, with
                              \* its arguments
    http,                     \* httpHandler.ServeHTTP: where each request is, its
                              \* locals, and the history of what it has called
    event,                    \* history: what the latest step did in a ServeHTTP,
                              \* if anything, and the request as the step left it
    run                       \* history: the EndRequest calls with
                              \* endRequestStateOK since the last other one, and
                              \* the level they began at

rObj == <<activeRequestsCount, maxRequests, minRequests,
          currentMaxRequestsLevel, predictedDuration, waitTime>>
config == <<maxRequests, minRequests, waitTime>>
locals == <<isInitial, dur, sleepLeft, clock, req, err>>
history == <<sleeps, slept>>
vars == <<activeRequestsCount, maxRequests, minRequests,
          currentMaxRequestsLevel, predictedDuration, waitTime, mux, pc,
          isInitial, dur, sleepLeft, clock, req, err, sleeps, slept, last,
          call, http, event, run>>
\* what the callers of Spec leave alone
outside == <<call, http, event, run>>

\* last when the latest step ran no locked section
NoLast == [op |-> "none", thread |-> NoThread, state |-> 0, elapsed |-> 0,
           active |-> 0, level |-> 0, predicted |-> 0,
           initial |-> FALSE, sleeps |-> 0, slept |-> 0, holder |-> NoThread]

\* last after caller t ran the locked section op ("test" of ServeRequest,
\* "admit" of newRequest, "end" of EndRequest, "again" of a second
\* EndRequest with the same handle, "count" of
\* GetSimultaneousRequestsCount, "limit" of GetActualRequestsLimit) or the
\* EndRequest of a nil request ("nil"): the fields as it found them, for
\* "end" and "nil" the endState, for "end" the elapsedTime, and the caller
\* that held rObj.mux while the section read and wrote the fields
\* (EndRequest(nil, ...) reads and writes none)
Found(op, t, state, elapsed) ==
    [op |-> op, thread |-> t, state |-> state, elapsed |-> elapsed,
     active |-> activeRequestsCount, level |-> currentMaxRequestsLevel,
     predicted |-> predictedDuration,
     initial |-> isInitial[t], sleeps |-> sleeps[t], slept |-> slept[t],
     holder |-> IF op = "nil" THEN NoThread ELSE mux]

\* ----- httpHandler.ServeHTTP: the errors it handles
MustPostError == "request must be a POST"
MustHaveQueryError == "request must include a query"
InvalidJSONError == "request must have a valid JSON structure"
ParseError == "Parse error"
PrepareError == "PrepareQuery error"
ExecuteError == "Execute error"
ContextCanceled == "context canceled"
DeadlineExceeded == "context deadline exceeded"

\* the ways the entry checks of ServeHTTP can fail
EntryErrors == {MustPostError, MustHaveQueryError, InvalidJSONError}
\* the errors Parse and PrepareQuery can return, and nil
QueryResults == {NoError, ParseError, PrepareError}
\* the errors the middlewares and Executor.Execute can return, and nil
ExecuteResults == {NoError, ExecuteError, ContextCanceled, DeadlineExceeded}

\* ErrorCause(err): the errors of the model are their own cause
ErrorCause(e) == e

\* a thread that serves no HTTP request
NoHandler ==
    [stage |-> "none", response |-> "none", request |-> NilRequest,
     endStateValue |-> endRequestStateOK, runner |-> "none",
     admits |-> 0, parses |-> 0, releases |-> 0, nilReleases |-> 0,
     hooks |-> 0, written |-> 0]

\* a request at the top of ServeHTTP
NewHandler == [NoHandler EXCEPT !.stage = "ServeHTTP"]

\* a request whose ServeHTTP has returned
DoneHandler == [NoHandler EXCEPT !.stage = "Done"]

\* event when the latest step did nothing in a ServeHTTP
NoEvent == [thread |-> NoThread, decided |-> FALSE, returns |-> FALSE,
            err |-> NoError, handler |-> NoHandler]

\* run when no EndRequest has run: no endRequestStateOK yet, from the level
\* the controller has
NoRun == [from |-> currentMaxRequestsLevel, pairs |-> 0]

\* ----- construction

\* mutant of initiate: a zero maxRequests gets its default, the level is
\* left as it was
initiate_KeepsLevel(o) ==
    LET w == IF o.waitTime = 0 THEN waitTimeDefault ELSE o.waitTime
        p == IF o.predictedDuration = 0 THEN w ELSE o.predictedDuration
    IN  [activeRequestsCount |-> o.activeRequestsCount,
         maxRequests |-> IF o.maxRequests = 0 THEN maxSimultaneousRequestsDefault
                         ELSE o.maxRequests,
         minRequests |-> IF o.minRequests = 0 THEN minSimultaneousRequestsDefault
                         ELSE o.minRequests,
         currentMaxRequestsLevel |-> o.currentMaxRequestsLevel,
         predictedDuration |-> p,
         waitTime |-> w]

\* mutant of initiate: predictedDuration is set to waitTime whatever it was
initiate_ResetsPrediction(o) ==
    LET w == IF o.waitTime = 0 THEN waitTimeDefault ELSE o.waitTime
        zeroMax == o.maxRequests = 0
    IN  [activeRequestsCount |-> o.activeRequestsCount,
         maxRequests |-> IF zeroMax THEN maxSimultaneousRequestsDefault
                         ELSE o.maxRequests,
         minRequests |-> IF o.minRequests = 0 THEN minSimultaneousRequestsDefault
                         ELSE o.minRequests,
         currentMaxRequestsLevel |-> IF zeroMax THEN maxSimultaneousRequestsDefault
                                     ELSE o.currentMaxRequestsLevel,
         predictedDuration |-> w,
         waitTime |-> w]

\* initiate(): zero fields get their defaults
initiate(o) ==
    LET w == IF o.waitTime = 0 THEN waitTimeDefault ELSE o.waitTime
        p == IF o.predictedDuration = 0 THEN w ELSE o.predictedDuration
        zeroMax == o.maxRequests = 0
    IN  [activeRequestsCount |-> o.activeRequestsCount,
         maxRequests |-> IF zeroMax THEN maxSimultaneousRequestsDefault
                         ELSE o.maxRequests,
         minRequests |-> IF o.minRequests = 0 THEN minSimultaneousRequestsDefault
                         ELSE o.minRequests,
         currentMaxRequestsLevel |-> IF zeroMax THEN maxSimultaneousRequestsDefault
                                     ELSE o.currentMaxRequestsLevel,
         predictedDuration |-> p,
         waitTime |-> w]

\* RatelimitHandler(maxRequests, minRequests, waitTime)
RatelimitHandler(maxR, minR, wait) ==
    initiate([activeRequestsCount |-> 0,
              maxRequests |-> maxR,
              minRequests |-> minR,
              currentMaxRequestsLevel |-> maxR,
              waitTime |-> wait,
              predictedDuration |-> wait])

\* RatelimitHandlerDefault()
RatelimitHandlerDefault ==
    initiate([activeRequestsCount |-> 0,
              maxRequests |-> 0,
              minRequests |-> 0,
              currentMaxRequestsLevel |-> 0,
              waitTime |-> 0,
              predictedDuration |-> 0])

\* the constructor call fn(maxR, minR, wait); fn is "pending" before the call
Called(fn, maxR, minR, wait) ==
    [fn |-> fn, maxRequests |-> maxR, minRequests |-> minR, waitTime |-> wait]

\* ----- the decisions of ServeRequest and EndRequest

\* mutant of CanServe: the test is off by one
CanServe_OffByOne(active, level) == active + 1 < level

\* ServeRequest: activeRequestsCount < currentMaxRequestsLevel
CanServe(active, level) == active < level

\* mutant of ShouldWait: dur is not compared with waitTime
ShouldWait_IgnoreBudget(initial, d, wait) == initial

\* mutant of ShouldWait: isInitial is not tested
ShouldWait_IgnoreInitial(initial, d, wait) == d <= wait

\* ServeRequest: isInitial && dur <= rObj.waitTime
ShouldWait(initial, d, wait) == initial /\ d <= wait

\* mutant of LevelAfterEnd: the level is lowered without the test against
\* minRequests
LevelAfterEnd_NoFloor(level, minR, maxR, predicted, wait, elapsed, state) ==
    IF state # endRequestStateOK
    THEN IF elapsed > predicted \/ elapsed > wait
         THEN level - GoDiv(level - minR, 2)
         ELSE level - 1
    ELSE IF level < maxR THEN level + 1 ELSE level

\* mutant of LevelAfterEnd: only endRequestStateCanceled lowers the level
LevelAfterEnd_ErrorNeutral(level, minR, maxR, predicted, wait, elapsed, state) ==
    IF state = endRequestStateCanceled
    THEN IF level > minR
         THEN IF elapsed > predicted \/ elapsed > wait
              THEN level - GoDiv(level - minR, 2)
              ELSE level - 1
         ELSE level
    ELSE IF state = endRequestStateOK /\ level < maxR THEN level + 1 ELSE level

\* mutant of LevelAfterEnd: the level is raised without the test against
\* maxRequests
LevelAfterEnd_Uncapped(level, minR, maxR, predicted, wait, elapsed, state) ==
    IF state # endRequestStateOK
    THEN IF level > minR
         THEN IF elapsed > predicted \/ elapsed > wait
              THEN level - GoDiv(level - minR, 2)
              ELSE level - 1
         ELSE level
    ELSE level + 1

\* mutant of LevelAfterEnd: the level is halved toward minRequests whatever
\* the elapsed time
LevelAfterEnd_AlwaysHalves(level, minR, maxR, predicted, wait, elapsed, state) ==
    IF state # endRequestStateOK
    THEN IF level > minR
         THEN level - GoDiv(level - minR, 2)
         ELSE level
    ELSE IF level < maxR THEN level + 1 ELSE level

\* mutant of LevelAfterEnd: the level is tested with >= against minRequests
LevelAfterEnd_FloorInclusive(level, minR, maxR, predicted, wait, elapsed, state) ==
    IF state # endRequestStateOK
    THEN IF level >= minR
         THEN IF elapsed > predicted \/ elapsed > wait
              THEN level - GoDiv(level - minR, 2)
              ELSE level - 1
         ELSE level
    ELSE IF level < maxR THEN level + 1 ELSE level

\* mutant of LevelAfterEnd: endRequestStateOK raises the level only when the
\* request took no longer than predicted
LevelAfterEnd_RaisesIfFast(level, minR, maxR, predicted, wait, elapsed, state) ==
    IF state # endRequestStateOK
    THEN IF level > minR
         THEN IF elapsed > predicted \/ elapsed > wait
              THEN level - GoDiv(level - minR, 2)
              ELSE level - 1
         ELSE level
    ELSE IF level < maxR /\ elapsed <= predicted THEN level + 1 ELSE level

\* EndRequest: the new currentMaxRequestsLevel
LevelAfterEnd(level, minR, maxR, predicted, wait, elapsed, state) ==
    IF state # endRequestStateOK
    THEN IF level > minR
         THEN IF elapsed > predicted \/ elapsed > wait
              THEN level - GoDiv(level - minR, 2)
              ELSE level - 1
         ELSE level
    ELSE IF level < maxR THEN level + 1 ELSE level

\* mutant of PredictedAfterEnd: no early return for endRequestStateError
PredictedAfterEnd_NoErrorReturn(predicted, elapsed, state) ==
    IF elapsed >= predicted
    THEN elapsed
    ELSE predicted - GoDiv(elapsed + predicted, 2)

\* mutant of PredictedAfterEnd: a longer request moves the prediction only
\* half of the way
PredictedAfterEnd_Averages(predicted, elapsed, state) ==
    IF state = endRequestStateError
    THEN predicted
    ELSE IF elapsed >= predicted
         THEN GoDiv(elapsed + predicted, 2)
         ELSE predicted - GoDiv(elapsed + predicted, 2)

\* mutant of PredictedAfterEnd: the prediction is lowered by half of the
\* difference, as the comment in EndRequest has it
PredictedAfterEnd_HalfDifference(predicted, elapsed, state) ==
    IF state = endRequestStateError
    THEN predicted
    ELSE IF elapsed >= predicted
         THEN elapsed
         ELSE predicted - GoDiv(predicted - elapsed, 2)

\* mutant of PredictedAfterEnd: elapsedTime is tested with > against
\* predictedDuration
PredictedAfterEnd_StrictTest(predicted, elapsed, state) ==
    IF state = endRequestStateError
    THEN predicted
    ELSE IF elapsed > predicted
         THEN elapsed
         ELSE predicted - GoDiv(elapsed + predicted, 2)

\* mutant of PredictedAfterEnd: a request faster than predicted leaves the
\* prediction as it is
PredictedAfterEnd_NoDecrease(predicted, elapsed, state) ==
    IF state = endRequestStateError
    THEN predicted
    ELSE IF elapsed >= predicted
         THEN elapsed
         ELSE predicted

\* EndRequest: the new predictedDuration
PredictedAfterEnd(predicted, elapsed, state) ==
    IF state = endRequestStateError
    THEN predicted
    ELSE IF elapsed >= predicted
         THEN elapsed
         ELSE predicted - GoDiv(elapsed + predicted, 2)

\* ----- initial state: a controller built by RatelimitHandler, callers about
\* to call ServeRequest(true)
Init ==
    /\ \E maxR \in 1..MaxCeiling, minR \in 1..MaxCeiling, wait \in 1..MaxWait :
         /\ minR <= maxR
         /\ LET o == RatelimitHandler(maxR, minR, wait)
            IN  /\ activeRequestsCount = o.activeRequestsCount
                /\ maxRequests = o.maxRequests
                /\ minRequests = o.minRequests
                /\ currentMaxRequestsLevel = o.currentMaxRequestsLevel
                /\ predictedDuration = o.predictedDuration
                /\ waitTime = o.waitTime
         /\ call = Called("RatelimitHandler", maxR, minR, wait)
    /\ http = [t \in Threads |-> NoHandler]
    /\ event = NoEvent
    /\ run = NoRun
    /\ mux = NoThread
    /\ pc = [t \in Threads |-> "ServeRequest"]
    /\ isInitial = [t \in Threads |-> TRUE]
    /\ dur = [t \in Threads |-> 0]
    /\ sleepLeft = [t \in Threads |-> 0]
    /\ clock = [t \in Threads |-> 0]
    /\ req = [t \in Threads |-> NilRequest]
    /\ err = [t \in Threads |-> NoError]
    /\ sleeps = [t \in Threads |-> 0]
    /\ slept = [t \in Threads |-> 0]
    /\ last = NoLast

\* ----- ServeRequest

\* rObj.mux.Lock() at the top of ServeRequest
ServeRequestLock(t) ==
    /\ pc[t] = "ServeRequest"
    /\ mux = NoThread
    /\ mux' = t
    /\ pc' = [pc EXCEPT ![t] = "ServeRequestCheck"]
    /\ last' = NoLast
    /\ UNCHANGED <<rObj, locals, history>>

\* mutant of ServeRequestCheck: rObj.mux.Unlock() is missing before
\* time.Sleep(dur)
ServeRequestCheck_SleepsLocked(t) ==
    /\ pc[t] = "ServeRequestCheck"
    /\ mux = t
    /\ IF CanServe(activeRequestsCount, currentMaxRequestsLevel)
       THEN /\ pc' = [pc EXCEPT ![t] = "newRequest"]
            /\ mux' = NoThread
            /\ UNCHANGED <<dur, sleepLeft, req, err, sleeps>>
       ELSE LET d == predictedDuration
            IN  IF ShouldWait(isInitial[t], d, waitTime)
                THEN /\ pc' = [pc EXCEPT ![t] = "Sleep"]
                     /\ mux' = mux
                     /\ dur' = [dur EXCEPT ![t] = d]
                     /\ sleepLeft' = [sleepLeft EXCEPT ![t] = d]
                     /\ sleeps' = [sleeps EXCEPT ![t] = @ + 1]
                     /\ UNCHANGED <<req, err>>
                ELSE /\ pc' = [pc EXCEPT ![t] = "Returned"]
                     /\ mux' = NoThread
                     /\ req' = [req EXCEPT ![t] = NilRequest]
                     /\ err' = [err EXCEPT ![t] = LimitError]
                     /\ UNCHANGED <<dur, sleepLeft, sleeps>>
    /\ last' = Found("test", t, 0, 0)
    /\ UNCHANGED <<rObj, isInitial, clock, slept>>

\* mutant of ServeRequestCheck: ServeRequest(false) goes on to newRequest
\* without the test
ServeRequestCheck_RetryAdmits(t) ==
    /\ pc[t] = "ServeRequestCheck"
    /\ mux = t
    /\ mux' = NoThread
    /\ IF ~isInitial[t] \/ CanServe(activeRequestsCount, currentMaxRequestsLevel)
       THEN /\ pc' = [pc EXCEPT ![t] = "newRequest"]
            /\ UNCHANGED <<dur, sleepLeft, req, err, sleeps>>
       ELSE LET d == predictedDuration
            IN  IF ShouldWait(isInitial[t], d, waitTime)
                THEN /\ pc' = [pc EXCEPT ![t] = "Sleep"]
                     /\ dur' = [dur EXCEPT ![t] = d]
                     /\ sleepLeft' = [sleepLeft EXCEPT ![t] = d]
                     /\ sleeps' = [sleeps EXCEPT ![t] = @ + 1]
                     /\ UNCHANGED <<req, err>>
                ELSE /\ pc' = [pc EXCEPT ![t] = "Returned"]
                     /\ req' = [req EXCEPT ![t] = NilRequest]
                     /\ err' = [err EXCEPT ![t] = LimitError]
                     /\ UNCHANGED <<dur, sleepLeft, sleeps>>
    /\ last' = Found("test", t, 0, 0)
    /\ UNCHANGED <<rObj, isInitial, clock, slept>>

\* the locked test of ServeRequest, its Unlock, and what follows up to the
\* call of newRequest, the call of time.Sleep, or the return of the error
ServeRequestCheck(t) ==
    /\ pc[t] = "ServeRequestCheck"
    /\ mux = t
    /\ mux' = NoThread
    /\ IF CanServe(activeRequestsCount, currentMaxRequestsLevel)
       THEN /\ pc' = [pc EXCEPT ![t] = "newRequest"]
            /\ UNCHANGED <<dur, sleepLeft, req, err, sleeps>>
       ELSE LET d == predictedDuration
            IN  IF ShouldWait(isInitial[t], d, waitTime)
                THEN /\ pc' = [pc EXCEPT ![t] = "Sleep"]
                     /\ dur' = [dur EXCEPT ![t] = d]
                     /\ sleepLeft' = [sleepLeft EXCEPT ![t] = d]
                     /\ sleeps' = [sleeps EXCEPT ![t] = @ + 1]
                     /\ UNCHANGED <<req, err>>
                ELSE /\ pc' = [pc EXCEPT ![t] = "Returned"]
                     /\ req' = [req EXCEPT ![t] = NilRequest]
                     /\ err' = [err EXCEPT ![t] = LimitError]
                     /\ UNCHANGED <<dur, sleepLeft, sleeps>>
    /\ last' = Found("test", t, 0, 0)
    /\ UNCHANGED <<rObj, isInitial, clock, slept>>

\* mutant of SleepReturns: the retry is rObj.ServeRequest(true)
SleepReturns_RetryInitial(t) ==
    /\ pc[t] = "Sleep"
    /\ sleepLeft[t] = 0
    /\ pc' = [pc EXCEPT ![t] = "ServeRequest"]
    /\ isInitial' = [isInitial EXCEPT ![t] = TRUE]
    /\ last' = NoLast
    /\ UNCHANGED <<rObj, mux, dur, sleepLeft, clock, req, err, history>>

\* time.Sleep(dur) is over: return rObj.ServeRequest(false)
SleepReturns(t) ==
    /\ pc[t] = "Sleep"
    /\ sleepLeft[t] = 0
    /\ pc' = [pc EXCEPT ![t] = "ServeRequest"]
    /\ isInitial' = [isInitial EXCEPT ![t] = FALSE]
    /\ last' = NoLast
    /\ UNCHANGED <<rObj, mux, dur, sleepLeft, clock, req, err, history>>

\* ----- newRequest

\* now := time.Now() and rObj.mux.Lock() in newRequest
newRequestLock(t) ==
    /\ pc[t] = "newRequest"
    /\ mux = NoThread
    /\ clock' = [clock EXCEPT ![t] = 0]
    /\ mux' = t
    /\ pc' = [pc EXCEPT ![t] = "newRequestBody"]
    /\ last' = NoLast
    /\ UNCHANGED <<rObj, isInitial, dur, sleepLeft, req, err, history>>

\* mutant of newRequestBody: the admission starts the prediction again at
\* waitTime
newRequestBody_ResetsPrediction(t) ==
    /\ pc[t] = "newRequestBody"
    /\ mux = t
    /\ LET now == 0
           predictedAt == now + predictedDuration
       IN  req' = [req EXCEPT ![t] = ActiveRequest(now, predictedAt)]
    /\ activeRequestsCount' = activeRequestsCount + 1
    /\ predictedDuration' = waitTime
    /\ mux' = NoThread
    /\ err' = [err EXCEPT ![t] = NoError]
    /\ pc' = [pc EXCEPT ![t] = "Returned"]
    /\ last' = Found("admit", t, 0, 0)
    /\ UNCHANGED <<config, currentMaxRequestsLevel,
                   isInitial, dur, sleepLeft, clock, history>>

\* the locked body of newRequest, its Unlock and the return of the handle
\* (startedAt is `now`, which is 0 on clock[t])
newRequestBody(t) ==
    /\ pc[t] = "newRequestBody"
    /\ mux = t
    /\ LET now == 0
           predictedAt == now + predictedDuration
       IN  req' = [req EXCEPT ![t] = ActiveRequest(now, predictedAt)]
    /\ activeRequestsCount' = activeRequestsCount + 1
    /\ mux' = NoThread
    /\ err' = [err EXCEPT ![t] = NoError]
    /\ pc' = [pc EXCEPT ![t] = "Returned"]
    /\ last' = Found("admit", t, 0, 0)
    /\ UNCHANGED <<config, currentMaxRequestsLevel, predictedDuration,
                   isInitial, dur, sleepLeft, clock, history>>

\* ----- EndRequest

\* mutant of EndRequestNil: no test for a nil request, the count is lowered
EndRequestNil_NoNilTest(t, state) ==
    /\ pc[t] = "Returned"
    /\ ~req[t].valid
    /\ pc' = [pc EXCEPT ![t] = "Done"]
    /\ activeRequestsCount' = activeRequestsCount - 1
    /\ isInitial' = [isInitial EXCEPT ![t] = TRUE]
    /\ dur' = [dur EXCEPT ![t] = 0]
    /\ err' = [err EXCEPT ![t] = NoError]
    /\ sleeps' = [sleeps EXCEPT ![t] = 0]
    /\ slept' = [slept EXCEPT ![t] = 0]
    /\ last' = Found("nil", t, state, 0)
    /\ UNCHANGED <<config, currentMaxRequestsLevel, predictedDuration, mux,
                   sleepLeft, clock, req>>

\* mutant of EndRequestNil: the nil test comes after rObj.mux.Lock() and
\* returns without Unlock
EndRequestNil_KeepsLock(t, state) ==
    /\ pc[t] = "Returned"
    /\ ~req[t].valid
    /\ mux = NoThread
    /\ mux' = t
    /\ pc' = [pc EXCEPT ![t] = "Done"]
    /\ isInitial' = [isInitial EXCEPT ![t] = TRUE]
    /\ dur' = [dur EXCEPT ![t] = 0]
    /\ err' = [err EXCEPT ![t] = NoError]
    /\ sleeps' = [sleeps EXCEPT ![t] = 0]
    /\ slept' = [slept EXCEPT ![t] = 0]
    /\ last' = Found("nil", t, state, 0)
    /\ UNCHANGED <<rObj, sleepLeft, clock, req>>

\* EndRequest(nil, endState): returns at once, whatever endState is; the
\* ServeRequest call of the caller is over
EndRequestNil(t, state) ==
    /\ pc[t] = "Returned"
    /\ ~req[t].valid
    /\ pc' = [pc EXCEPT ![t] = "Done"]
    /\ isInitial' = [isInitial EXCEPT ![t] = TRUE]
    /\ dur' = [dur EXCEPT ![t] = 0]
    /\ err' = [err EXCEPT ![t] = NoError]
    /\ sleeps' = [sleeps EXCEPT ![t] = 0]
    /\ slept' = [slept EXCEPT ![t] = 0]
    /\ last' = Found("nil", t, state, 0)
    /\ UNCHANGED <<rObj, mux, sleepLeft, clock, req>>

\* EndRequest(req, endState) with a handle: rObj.mux.Lock(); the ServeRequest
\* call of the caller is over
EndRequestLock(t) ==
    /\ pc[t] = "Returned"
    /\ req[t].valid
    /\ mux = NoThread
    /\ mux' = t
    /\ pc' = [pc EXCEPT ![t] = "EndRequestBody"]
    /\ isInitial' = [isInitial EXCEPT ![t] = TRUE]
    /\ dur' = [dur EXCEPT ![t] = 0]
    /\ err' = [err EXCEPT ![t] = NoError]
    /\ sleeps' = [sleeps EXCEPT ![t] = 0]
    /\ slept' = [slept EXCEPT ![t] = 0]
    /\ last' = NoLast
    /\ UNCHANGED <<rObj, sleepLeft, clock, req>>

\* mutant of EndRequestBody: the return for endRequestStateError has no
\* rObj.mux.Unlock() before it
EndRequestBody_ErrorKeepsLock(t, state) ==
    /\ pc[t] = "EndRequestBody"
    /\ mux = t
    /\ LET elapsedTime == clock[t] - req[t].startedAt
       IN  /\ activeRequestsCount' = activeRequestsCount - 1
           /\ currentMaxRequestsLevel' =
                  LevelAfterEnd(currentMaxRequestsLevel, minRequests, maxRequests,
                                predictedDuration, waitTime, elapsedTime, state)
           /\ predictedDuration' =
                  PredictedAfterEnd(predictedDuration, elapsedTime, state)
           /\ last' = Found("end", t, state, elapsedTime)
    /\ mux' = IF state = endRequestStateError THEN mux ELSE NoThread
    /\ pc' = [pc EXCEPT ![t] = "Done"]
    /\ clock' = [clock EXCEPT ![t] = 0]
    /\ UNCHANGED <<config, isInitial, dur, sleepLeft, req, err, history>>

\* mutant of EndRequestBody: predictedDuration is updated first, and the
\* test of the level reads the new value
EndRequestBody_PredictionFirst(t, state) ==
    /\ pc[t] = "EndRequestBody"
    /\ mux = t
    /\ LET elapsedTime == clock[t] - req[t].startedAt
           predicted == PredictedAfterEnd(predictedDuration, elapsedTime, state)
       IN  /\ activeRequestsCount' = activeRequestsCount - 1
           /\ predictedDuration' = predicted
           /\ currentMaxRequestsLevel' =
                  LevelAfterEnd(currentMaxRequestsLevel, minRequests, maxRequests,
                                predicted, waitTime, elapsedTime, state)
           /\ last' = Found("end", t, state, elapsedTime)
    /\ mux' = NoThread
    /\ pc' = [pc EXCEPT ![t] = "Done"]
    /\ clock' = [clock EXCEPT ![t] = 0]
    /\ UNCHANGED <<config, isInitial, dur, sleepLeft, req, err, history>>

\* the locked body of EndRequest(req, endState) up to either Unlock, and its
\* return; endState, which nothing reads before the body, is drawn here
EndRequestBody(t, state) ==
    /\ pc[t] = "EndRequestBody"
    /\ mux = t
    /\ LET elapsedTime == clock[t] - req[t].startedAt
       IN  /\ activeRequestsCount' = activeRequestsCount - 1
           /\ currentMaxRequestsLevel' =
                  LevelAfterEnd(currentMaxRequestsLevel, minRequests, maxRequests,
                                predictedDuration, waitTime, elapsedTime, state)
           /\ predictedDuration' =
                  PredictedAfterEnd(predictedDuration, elapsedTime, state)
           /\ last' = Found("end", t, state, elapsedTime)
    /\ mux' = NoThread
    /\ pc' = [pc EXCEPT ![t] = "Done"]
    /\ clock' = [clock EXCEPT ![t] = 0]
    /\ UNCHANGED <<config, isInitial, dur, sleepLeft, req, err, history>>

\* the caller drops the handle and starts its next request:
\* rObj.ServeRequest(true)
NextRequest(t) ==
    /\ pc[t] = "Done"
    /\ pc' = [pc EXCEPT ![t] = "ServeRequest"]
    /\ isInitial' = [isInitial EXCEPT ![t] = TRUE]
    /\ req' = [req EXCEPT ![t] = NilRequest]
    /\ last' = NoLast
    /\ UNCHANGED <<rObj, mux, dur, sleepLeft, clock, err, history>>

\* ----- time

\* the callers whose `now` is still to be compared with a later time
Timed(t) == pc[t] \in {"newRequestBody", "EndRequestBody"}
            \/ (pc[t] = "Returned" /\ req[t].valid)

Sleeping(t) == pc[t] = "Sleep" /\ sleepLeft[t] > 0

\* one time unit passes
Tick ==
    /\ \E t \in Threads : Timed(t) \/ Sleeping(t)
    /\ \A t \in Threads : Timed(t) => clock[t] < MaxElapsed
    /\ clock' = [t \in Threads |-> IF Timed(t) THEN clock[t] + 1 ELSE clock[t]]
    /\ sleepLeft' = [t \in Threads |->
                        IF Sleeping(t) THEN sleepLeft[t] - 1 ELSE sleepLeft[t]]
    /\ slept' = [t \in Threads |-> IF Sleeping(t) THEN slept[t] + 1 ELSE slept[t]]
    /\ last' = NoLast
    /\ UNCHANGED <<rObj, mux, pc, isInitial, dur, req, err, sleeps>>

Next ==
    \/ \E t \in Threads : ServeRequestLock(t) /\ UNCHANGED outside
    \/ \E t \in Threads : ServeRequestCheck(t) /\ UNCHANGED outside
    \/ \E t \in Threads : SleepReturns(t) /\ UNCHANGED outside
    \/ \E t \in Threads : newRequestLock(t) /\ UNCHANGED outside
    \/ \E t \in Threads : newRequestBody(t) /\ UNCHANGED outside
    \/ \E t \in Threads, state \in EndStates :
          EndRequestNil(t, state) /\ UNCHANGED outside
    \/ \E t \in Threads : EndRequestLock(t) /\ UNCHANGED outside
    \/ \E t \in Threads, state \in EndStates :
          EndRequestBody(t, state) /\ UNCHANGED outside
    \/ \E t \in Threads : NextRequest(t) /\ UNCHANGED outside
    \/ Tick /\ UNCHANGED outside

Spec == Init /\ [][Next]_vars

\* ----- the callers of Spec under a fair scheduler

\* a step of caller t inside a ServeRequest or an EndRequest call
Running(t) ==
    \/ ServeRequestLock(t)
    \/ ServeRequestCheck(t)
    \/ SleepReturns(t)
    \/ newRequestLock(t)
    \/ newRequestBody(t)
    \/ EndRequestLock(t)
    \/ \E state \in EndStates : EndRequestBody(t, state)

\* a caller inside a call that can run again and again does run: one that
\* waits for rObj.mux gets it when it is free again and again (sync.Mutex
\* hands the lock to a waiter that has waited long), and time passes.  The
\* clock of the model stops at MaxElapsed until the callers that hold a
\* handle have ended their requests, so time passes only under callers that
\* end them.
Fairness ==
    /\ \A t \in Threads : SF_vars(Running(t) /\ UNCHANGED outside)
    /\ SF_vars(Tick /\ UNCHANGED outside)

SpecFair == Init /\ [][Next]_vars /\ Fairness

\* the fair callers on the controller of RatelimitHandler(1, 1, 1): one
\* place, which every caller but one finds taken
InitContended ==
    /\ Init
    /\ call = Called("RatelimitHandler", 1, 1, 1)

SpecContended == InitContended /\ [][Next]_vars /\ Fairness

\* ----- construction on its own: a constructor is about to be called with
\* any arguments from 0 up; rObj is the zero RatelimitObject{} until then
InitConstruct ==
    /\ \E maxR \in 0..MaxArg, minR \in 0..MaxArg, wait \in 0..MaxArg :
         call = Called("pending", maxR, minR, wait)
    /\ http = [t \in Threads |-> NoHandler]
    /\ event = NoEvent
    /\ activeRequestsCount = 0
    /\ maxRequests = 0
    /\ minRequests = 0
    /\ currentMaxRequestsLevel = 0
    /\ run = NoRun
    /\ predictedDuration = 0
    /\ waitTime = 0
    /\ mux = NoThread
    /\ pc = [t \in Threads |-> "ServeRequest"]
    /\ isInitial = [t \in Threads |-> TRUE]
    /\ dur = [t \in Threads |-> 0]
    /\ sleepLeft = [t \in Threads |-> 0]
    /\ clock = [t \in Threads |-> 0]
    /\ req = [t \in Threads |-> NilRequest]
    /\ err = [t \in Threads |-> NoError]
    /\ sleeps = [t \in Threads |-> 0]
    /\ slept = [t \in Threads |-> 0]
    /\ last = NoLast

\* rObj becomes the object o a constructor returned
Constructed(o) ==
    /\ activeRequestsCount' = o.activeRequestsCount
    /\ maxRequests' = o.maxRequests
    /\ minRequests' = o.minRequests
    /\ currentMaxRequestsLevel' = o.currentMaxRequestsLevel
    /\ predictedDuration' = o.predictedDuration
    /\ waitTime' = o.waitTime
    /\ UNCHANGED <<mux, pc, locals, history, last, http, event, run>>

\* rObj = RatelimitHandler(maxRequests, minRequests, waitTime)
CallRatelimitHandler ==
    /\ call.fn = "pending"
    /\ call' = [call EXCEPT !.fn = "RatelimitHandler"]
    /\ Constructed(RatelimitHandler(call.maxRequests, call.minRequests,
                                    call.waitTime))

\* rObj = RatelimitHandlerDefault(); the arguments at hand are not used
CallRatelimitHandlerDefault ==
    /\ call.fn = "pending"
    /\ call' = [call EXCEPT !.fn = "RatelimitHandlerDefault"]
    /\ Constructed(RatelimitHandlerDefault)

NextConstruct ==
    \/ CallRatelimitHandler
    \/ CallRatelimitHandlerDefault

SpecConstruct == InitConstruct /\ [][NextConstruct]_vars

\* ----- one operation on a controller somewhere in its life: built by
\* RatelimitHandler(maxR, minR, wait), its level anywhere from minRequests to
\* maxRequests and its predictedDuration any positive duration after the
\* requests it has served, and one request, admitted elapsed ago, about to
\* call EndRequest
InitUnit ==
    /\ \E maxR \in 1..MaxCeiling, minR \in 1..MaxCeiling, level \in 1..MaxCeiling,
          wait \in 1..MaxArg, predicted \in 1..MaxArg :
         /\ minR <= level
         /\ level <= maxR
         /\ activeRequestsCount = 1
         /\ maxRequests = maxR
         /\ minRequests = minR
         /\ currentMaxRequestsLevel = level
         /\ predictedDuration = predicted
         /\ waitTime = wait
         /\ call = Called("RatelimitHandler", maxR, minR, wait)
    /\ \E elapsed \in 0..MaxArg :
         clock = [t \in Threads |-> IF t = 1 THEN elapsed ELSE 0]
    /\ http = [t \in Threads |-> NoHandler]
    /\ event = NoEvent
    /\ run = NoRun
    /\ mux = NoThread
    /\ pc = [t \in Threads |-> IF t = 1 THEN "Returned" ELSE "Done"]
    /\ isInitial = [t \in Threads |-> TRUE]
    /\ dur = [t \in Threads |-> 0]
    /\ sleepLeft = [t \in Threads |-> 0]
    /\ req = [t \in Threads |-> IF t = 1 THEN ActiveRequest(0, predictedDuration)
                                 ELSE NilRequest]
    /\ err = [t \in Threads |-> NoError]
    /\ sleeps = [t \in Threads |-> 0]
    /\ slept = [t \in Threads |-> 0]
    /\ last = NoLast

\* rObj.initiate() once more, by a caller t that is in no call of the
\* controller
CallInitiate(t) ==
    /\ pc[t] = "Done"
    /\ LET o == initiate([activeRequestsCount |-> activeRequestsCount,
                          maxRequests |-> maxRequests,
                          minRequests |-> minRequests,
                          currentMaxRequestsLevel |-> currentMaxRequestsLevel,
                          predictedDuration |-> predictedDuration,
                          waitTime |-> waitTime])
       IN  /\ activeRequestsCount' = o.activeRequestsCount
           /\ maxRequests' = o.maxRequests
           /\ minRequests' = o.minRequests
           /\ currentMaxRequestsLevel' = o.currentMaxRequestsLevel
           /\ predictedDuration' = o.predictedDuration
           /\ waitTime' = o.waitTime
    /\ last' = Found("initiate", t, 0, 0)
    /\ UNCHANGED <<mux, pc, locals, history>>

\* EndRequest(req, endState) once more, with the handle whose EndRequest has
\* just returned: rObj.mux.Lock(); time.Since(request.startedAt) will be no
\* less than the first call found it
EndRequestAgainLock(t) ==
    /\ pc[t] = "Done"
    /\ req[t].valid
    /\ last.op = "end"
    /\ last.thread = t
    /\ mux = NoThread
    /\ mux' = t
    /\ pc' = [pc EXCEPT ![t] = "EndRequestAgainBody"]
    /\ \E elapsed \in last.elapsed..MaxArg :
         clock' = [clock EXCEPT ![t] = req[t].startedAt + elapsed]
    /\ last' = NoLast
    /\ UNCHANGED <<rObj, isInitial, dur, sleepLeft, req, err, history>>

\* mutant of EndRequestAgainBody: EndRequest finds that the handle has been
\* released already and returns after its Unlock
EndRequestAgainBody_Detects(t, state) ==
    /\ pc[t] = "EndRequestAgainBody"
    /\ mux = t
    /\ last' = Found("again", t, state, clock[t] - req[t].startedAt)
    /\ mux' = NoThread
    /\ pc' = [pc EXCEPT ![t] = "EndedTwice"]
    /\ clock' = [clock EXCEPT ![t] = 0]
    /\ UNCHANGED <<rObj, isInitial, dur, sleepLeft, req, err, history>>

\* the locked body of that second EndRequest(req, endState) up to either
\* Unlock, and its return: the statements of the first
EndRequestAgainBody(t, state) ==
    /\ pc[t] = "EndRequestAgainBody"
    /\ mux = t
    /\ LET elapsedTime == clock[t] - req[t].startedAt
       IN  /\ activeRequestsCount' = activeRequestsCount - 1
           /\ currentMaxRequestsLevel' =
                  LevelAfterEnd(currentMaxRequestsLevel, minRequests, maxRequests,
                                predictedDuration, waitTime, elapsedTime, state)
           /\ predictedDuration' =
                  PredictedAfterEnd(predictedDuration, elapsedTime, state)
           /\ last' = Found("again", t, state, elapsedTime)
    /\ mux' = NoThread
    /\ pc' = [pc EXCEPT ![t] = "EndedTwice"]
    /\ clock' = [clock EXCEPT ![t] = 0]
    /\ UNCHANGED <<config, isInitial, dur, sleepLeft, req, err, history>>

NextUnit ==
    \/ \E t \in Threads : EndRequestLock(t) /\ UNCHANGED outside
    \/ \E t \in Threads, state \in EndStates :
          EndRequestBody(t, state) /\ UNCHANGED outside
    \/ \E t \in Threads : EndRequestAgainLock(t) /\ UNCHANGED outside
    \/ \E t \in Threads, state \in EndStates :
          EndRequestAgainBody(t, state) /\ UNCHANGED outside
    \/ \E t \in Threads : CallInitiate(t) /\ UNCHANGED outside

SpecUnit == InitUnit /\ [][NextUnit]_vars

\* ----- httpHandler.ServeHTTP: every thread serves one HTTP request against
\* the controller of HTTPHandlerWithHooks(schema, maxR, 1, 1, ...), whose
\* errorHandler is set.  The steps of a request between two calls of the
\* controller touch nothing shared and are one step here.
InitHTTP ==
    /\ \E maxR \in 1..MaxCeiling :
         /\ LET o == RatelimitHandler(maxR, 1, 1)
            IN  /\ activeRequestsCount = o.activeRequestsCount
                /\ maxRequests = o.maxRequests
                /\ minRequests = o.minRequests
                /\ currentMaxRequestsLevel = o.currentMaxRequestsLevel
                /\ predictedDuration = o.predictedDuration
                /\ waitTime = o.waitTime
         /\ call = Called("RatelimitHandler", maxR, 1, 1)
    /\ http = [t \in Threads |-> NewHandler]
    /\ event = NoEvent
    /\ run = NoRun
    /\ mux = NoThread
    /\ pc = [t \in Threads |-> "Done"]
    /\ isInitial = [t \in Threads |-> TRUE]
    /\ dur = [t \in Threads |-> 0]
    /\ sleepLeft = [t \in Threads |-> 0]
    /\ clock = [t \in Threads |-> 0]
    /\ req = [t \in Threads |-> NilRequest]
    /\ err = [t \in Threads |-> NoError]
    /\ sleeps = [t \in Threads |-> 0]
    /\ slept = [t \in Threads |-> 0]
    /\ last = NoLast

\* a step of ServeHTTP that calls nothing of the controller, or only
\* EndRequest(nil, endStateValue), which returns at once
HandlerOnly ==
    /\ last' = NoLast
    /\ UNCHANGED <<rObj, mux, pc, locals, history, call, run>>

\* a step of the controller inside a call ServeHTTP made
LimiterOnly ==
    /\ event' = NoEvent
    /\ UNCHANGED <<call, http, run>>

\* mutant of writeResponse: endStateValue stays endRequestStateOK when err
\* is not nil
writeResponse_AlwaysOK(h, e, request) ==
    [h EXCEPT !.stage = "EndRequest",
              !.response = IF e # NoError THEN "Errors" ELSE "Data",
              !.request = request,
              !.endStateValue = endRequestStateOK,
              !.hooks = IF e # NoError THEN @ + 1 ELSE @]

\* mutant of writeResponse: the response is marshalled and written before
\* h.ratelimit.EndRequest(req, endStateValue) is called
writeResponse_WritesFirst(h, e, request) ==
    [h EXCEPT !.stage = "EndRequest",
              !.response = IF e # NoError THEN "Errors" ELSE "Data",
              !.request = request,
              !.endStateValue = IF e # NoError THEN endRequestStateError
                                ELSE endRequestStateOK,
              !.hooks = IF e # NoError THEN @ + 1 ELSE @,
              !.written = @ + 1]

\* writeResponse(value, err, query, req) of the request h, from its top to
\* its call h.ratelimit.EndRequest(req, endStateValue); e is err, request
\* is req; err lives on in response.Errors only
writeResponse(h, e, request) ==
    [h EXCEPT !.stage = "EndRequest",
              !.response = IF e # NoError THEN "Errors" ELSE "Data",
              !.request = request,
              !.endStateValue = IF e # NoError THEN endRequestStateError
                                ELSE endRequestStateOK,
              !.hooks = IF e # NoError THEN @ + 1 ELSE @]

\* the request h from the return of EndRequest to the return of ServeHTTP:
\* in writeResponse json.Marshal passes and w.Write sends the response, or
\* json.Marshal fails on the value, h.errorHandler is called and http.Error
\* sends the failure; the function given to the Rerunner, if it is running,
\* returns through wg.Done(), wg.Wait() returns and runner.Stop() is called
Respond(h, marshalled) ==
    LET failed == h.response = "Data" /\ ~marshalled
    IN  [h EXCEPT !.stage = "Done",
                  !.written = IF h.response # "none" THEN @ + 1 ELSE @,
                  !.hooks = IF failed THEN @ + 1 ELSE @,
                  !.runner = IF @ = "running" THEN "stopped" ELSE @]

\* h.ratelimit.EndRequest(nil, endStateValue) of the request h: returns at
\* once
EndRequestOfNil(h) == [h EXCEPT !.nilReleases = @ + 1]

\* the step took the error e, or a value when e is nil, to writeResponse or
\* to EndRequest, leaving the request of thread t as h
Decides(t, e, h) ==
    /\ event' = [thread |-> t, decided |-> TRUE, returns |-> FALSE,
                 err |-> e, handler |-> h]
    /\ http' = [http EXCEPT ![t] = h]

\* the step answered the error e and ServeHTTP returned with the request of
\* thread t as h
DecidesAndReturns(t, e, h) ==
    /\ event' = [thread |-> t, decided |-> TRUE, returns |-> TRUE,
                 err |-> e, handler |-> h]
    /\ http' = [http EXCEPT ![t] = DoneHandler]

\* ServeHTTP returned with the request of thread t as h
Returns(t, h) ==
    /\ event' = [thread |-> t, decided |-> FALSE, returns |-> TRUE,
                 err |-> NoError, handler |-> h]
    /\ http' = [http EXCEPT ![t] = DoneHandler]

\* mutant of ServeHTTP: the JSON of the body is decoded after
\* h.ratelimit.ServeRequest(true) has returned a handle, which the answer to
\* the invalid JSON drops
ServeHTTP_DecodesAfterServeRequest(t, e) ==
    /\ http[t].stage = "ServeHTTP"
    /\ IF e # NoError
       THEN LET h == writeResponse([http[t] EXCEPT
                                      !.hooks = IF e = InvalidJSONError
                                                THEN @ + 1 ELSE @,
                                      !.admits = IF e = InvalidJSONError
                                                 THEN @ + 1 ELSE @],
                                   e, NilRequest)
            IN  /\ DecidesAndReturns(t, e, Respond(EndRequestOfNil(h), TRUE))
                /\ last' = Found("nil", t, h.endStateValue, 0)
                /\ activeRequestsCount' =
                       IF e = InvalidJSONError THEN activeRequestsCount + 1
                       ELSE activeRequestsCount
                /\ UNCHANGED <<config, currentMaxRequestsLevel,
                               predictedDuration, mux, pc, locals, history,
                               call, run>>
       ELSE /\ http' = [http EXCEPT ![t].stage = "ServeRequest",
                                    ![t].admits = @ + 1]
            /\ event' = NoEvent
            /\ pc[t] = "Done"
            /\ pc' = [pc EXCEPT ![t] = "ServeRequest"]
            /\ isInitial' = [isInitial EXCEPT ![t] = TRUE]
            /\ last' = NoLast
            /\ UNCHANGED <<rObj, mux, dur, sleepLeft, clock, req, err, history,
                           call, run>>

\* ServeHTTP from its top: the checks of the method, the body and its JSON
\* fail with e, answered by writeResponse(nil, err, nil, nil), or pass (e is
\* nil) up to the call h.ratelimit.ServeRequest(true)
ServeHTTP(t, e) ==
    /\ http[t].stage = "ServeHTTP"
    /\ IF e # NoError
       THEN LET h == writeResponse(IF e = InvalidJSONError
                                   THEN [http[t] EXCEPT !.hooks = @ + 1]
                                   ELSE http[t],
                                   e, NilRequest)
            IN  /\ DecidesAndReturns(t, e, Respond(EndRequestOfNil(h), TRUE))
                /\ last' = Found("nil", t, h.endStateValue, 0)
                /\ UNCHANGED <<rObj, mux, pc, locals, history, call, run>>
       ELSE /\ http' = [http EXCEPT ![t].stage = "ServeRequest",
                                    ![t].admits = @ + 1]
            /\ event' = NoEvent
            /\ pc[t] = "Done"
            /\ pc' = [pc EXCEPT ![t] = "ServeRequest"]
            /\ isInitial' = [isInitial EXCEPT ![t] = TRUE]
            /\ last' = NoLast
            /\ UNCHANGED <<rObj, mux, dur, sleepLeft, clock, req, err, history,
                           call, run>>

\* reactive.NewRerunner runs the function it was given, once
RerunnerRuns(h) == [h EXCEPT !.stage = "compute", !.runner = "running"]

\* mutant of ServeHTTPQuery: the first error of h.ratelimit.ServeRequest(true)
\* is answered by a second call of it
ServeHTTPQuery_RetriesServeRequest(t, e) ==
    /\ http[t].stage = "ServeRequest"
    /\ pc[t] = "Returned"
    /\ IF err[t] # NoError
       THEN IF http[t].admits = 1
            THEN /\ http' = [http EXCEPT ![t].admits = @ + 1]
                 /\ event' = NoEvent
                 /\ pc' = [pc EXCEPT ![t] = "ServeRequest"]
                 /\ isInitial' = [isInitial EXCEPT ![t] = TRUE]
                 /\ err' = [err EXCEPT ![t] = NoError]
                 /\ sleeps' = [sleeps EXCEPT ![t] = 0]
                 /\ slept' = [slept EXCEPT ![t] = 0]
                 /\ last' = NoLast
                 /\ UNCHANGED <<rObj, mux, dur, sleepLeft, clock, req, call, run>>
            ELSE LET h == writeResponse(http[t], err[t], NilRequest)
                 IN  /\ EndRequestNil(t, h.endStateValue)
                     /\ DecidesAndReturns(t, err[t],
                                          Respond(EndRequestOfNil(h), TRUE))
                     /\ UNCHANGED <<call, run>>
       ELSE LET h == [http[t] EXCEPT !.parses = @ + 1]
            IN  /\ IF e # NoError
                   THEN Decides(t, e, writeResponse(h, e, req[t]))
                   ELSE /\ http' = [http EXCEPT ![t] = RerunnerRuns(h)]
                        /\ event' = NoEvent
                /\ HandlerOnly

\* h.ratelimit.ServeRequest(true) has returned: its error is answered by
\* writeResponse(nil, err, nil, nil); else Parse and PrepareQuery run,
\* failing with e, answered by writeResponse(nil, err, &params.Query, req),
\* or passing (e is nil) up to reactive.NewRerunner
ServeHTTPQuery(t, e) ==
    /\ http[t].stage = "ServeRequest"
    /\ pc[t] = "Returned"
    /\ IF err[t] # NoError
       THEN LET h == writeResponse(http[t], err[t], NilRequest)
            IN  /\ EndRequestNil(t, h.endStateValue)
                /\ DecidesAndReturns(t, err[t],
                                     Respond(EndRequestOfNil(h), TRUE))
                /\ UNCHANGED <<call, run>>
       ELSE LET h == [http[t] EXCEPT !.parses = @ + 1]
            IN  /\ IF e # NoError
                   THEN Decides(t, e, writeResponse(h, e, req[t]))
                   ELSE /\ http' = [http EXCEPT ![t] = RerunnerRuns(h)]
                        /\ event' = NoEvent
                /\ HandlerOnly

\* a step of GetSimultaneousRequestsCount or GetActualRequestsLimit, called
\* by the function ServeHTTP gives to reactive.NewRerunner
AccessorOnly ==
    /\ event' = NoEvent
    /\ UNCHANGED <<rObj, pc, locals, history, call, run>>

\* mutant of GetSimultaneousRequestsCountLock: the accessor goes on to its
\* read without rObj.mux.Lock()
GetSimultaneousRequestsCountLock_NoLock(t) ==
    /\ http[t].stage = "compute"
    /\ http' = [http EXCEPT ![t].stage = "GetSimultaneousRequestsCount"]
    /\ last' = NoLast
    /\ UNCHANGED mux
    /\ AccessorOnly

\* RequestsCount: h.ratelimit.GetSimultaneousRequestsCount(): rObj.mux.Lock()
GetSimultaneousRequestsCountLock(t) ==
    /\ http[t].stage = "compute"
    /\ mux = NoThread
    /\ mux' = t
    /\ http' = [http EXCEPT ![t].stage = "GetSimultaneousRequestsCount"]
    /\ last' = NoLast
    /\ AccessorOnly

\* return rObj.activeRequestsCount, and the deferred rObj.mux.Unlock()
GetSimultaneousRequestsCount(t) ==
    /\ http[t].stage = "GetSimultaneousRequestsCount"
    /\ mux = t
    /\ mux' = NoThread
    /\ http' = [http EXCEPT ![t].stage = "RequestsLimit"]
    /\ last' = Found("count", t, 0, 0)
    /\ AccessorOnly

\* RequestsLimit: h.ratelimit.GetActualRequestsLimit(): rObj.mux.Lock()
GetActualRequestsLimitLock(t) ==
    /\ http[t].stage = "RequestsLimit"
    /\ mux = NoThread
    /\ mux' = t
    /\ http' = [http EXCEPT ![t].stage = "GetActualRequestsLimit"]
    /\ last' = NoLast
    /\ AccessorOnly

\* return rObj.currentMaxRequestsLevel, and the deferred rObj.mux.Unlock();
\* what the function does next is the handler's
GetActualRequestsLimit(t) ==
    /\ http[t].stage = "GetActualRequestsLimit"
    /\ mux = t
    /\ mux' = NoThread
    /\ last' = Found("limit", t, 0, 0)
    /\ UNCHANGED <<rObj, pc, locals, history, call, run>>

\* mutant of compute: a canceled execution returns without EndRequest
compute_CanceledNoRelease(t, e) ==
    /\ GetActualRequestsLimit(t)
    /\ IF e # NoError /\ ErrorCause(e) = ContextCanceled
       THEN DecidesAndReturns(t, e, Respond(http[t], TRUE))
       ELSE Decides(t, e, writeResponse(http[t], e, req[t]))

\* mutant of compute: h.errorHandler is called for a canceled execution too
compute_CanceledCallsHook(t, e) ==
    /\ GetActualRequestsLimit(t)
    /\ Decides(t, e,
           IF e # NoError
           THEN IF ErrorCause(e) # ContextCanceled
                THEN writeResponse(http[t], e, req[t])
                ELSE [http[t] EXCEPT !.stage = "EndRequest",
                                     !.request = req[t],
                                     !.endStateValue = endRequestStateCanceled,
                                     !.hooks = @ + 1]
           ELSE writeResponse(http[t], NoError, req[t]))

\* the function ServeHTTP gives to reactive.NewRerunner, from the second of
\* its two reads of the controller: RunMiddlewares returns the error e or a
\* value (e is nil); then writeResponse, or EndRequest(req, Canceled) when
\* the cause of e is context.Canceled
compute(t, e) ==
    /\ GetActualRequestsLimit(t)
    /\ Decides(t, e,
           IF e # NoError
           THEN IF ErrorCause(e) # ContextCanceled
                THEN writeResponse(http[t], e, req[t])
                ELSE [http[t] EXCEPT !.stage = "EndRequest",
                                     !.request = req[t],
                                     !.endStateValue = endRequestStateCanceled]
           ELSE writeResponse(http[t], NoError, req[t]))

\* h.ratelimit.EndRequest(req, endStateValue) with the handle of the
\* request: rObj.mux.Lock()
ServeHTTPEndRequestLock(t) ==
    /\ http[t].stage = "EndRequest"
    /\ http[t].request.valid
    /\ http[t].request = req[t]
    /\ EndRequestLock(t)
    /\ LimiterOnly

\* h.ratelimit.EndRequest(req, endStateValue): its locked body and return,
\* and ServeHTTP goes on to its return
ServeHTTPEndRequestBody(t, marshalled) ==
    /\ http[t].stage = "EndRequest"
    /\ EndRequestBody(t, http[t].endStateValue)
    /\ Returns(t, Respond([http[t] EXCEPT !.releases = @ + 1], marshalled))
    /\ UNCHANGED <<call, run>>

\* time passes as in Spec, for the requests that are in a ServeHTTP
NextHTTP ==
    \/ \E t \in Threads, e \in EntryErrors \cup {NoError} : ServeHTTP(t, e)
    \/ \E t \in Threads : ServeRequestLock(t) /\ LimiterOnly
    \/ \E t \in Threads : ServeRequestCheck(t) /\ LimiterOnly
    \/ \E t \in Threads : SleepReturns(t) /\ LimiterOnly
    \/ \E t \in Threads : newRequestLock(t) /\ LimiterOnly
    \/ \E t \in Threads : newRequestBody(t) /\ LimiterOnly
    \/ \E t \in Threads, e \in QueryResults : ServeHTTPQuery(t, e)
    \/ \E t \in Threads : GetSimultaneousRequestsCountLock(t)
    \/ \E t \in Threads : GetSimultaneousRequestsCount(t)
    \/ \E t \in Threads : GetActualRequestsLimitLock(t)
    \/ \E t \in Threads, e \in ExecuteResults : compute(t, e)
    \/ \E t \in Threads : ServeHTTPEndRequestLock(t)
    \/ \E t \in Threads, marshalled \in BOOLEAN :
          ServeHTTPEndRequestBody(t, marshalled)
    \/ Tick /\ LimiterOnly

SpecHTTP == InitHTTP /\ [][NextHTTP]_vars

\* ----- the callers of Spec, with the EndRequest(req, endRequestStateOK)
\* calls in a row counted

\* a step of Spec other than the body of EndRequest: it ends no request
Uncounted == UNCHANGED outside

\* the body of EndRequest, counted: endRequestStateOK adds one to the row (a
\* row is followed up to MaxPairs calls), any other end state starts a new
\* row at the level it leaves
EndRequestCounted(t, state) ==
    /\ state = endRequestStateOK => run.pairs < MaxPairs
    /\ EndRequestBody(t, state)
    /\ run' = IF state = endRequestStateOK
              THEN [run EXCEPT !.pairs = @ + 1]
              ELSE [from |-> currentMaxRequestsLevel', pairs |-> 0]
    /\ UNCHANGED <<call, http, event>>

\* the callers whose requests make the rows: two of them, so that a request
\* can be under way while another ends
RowCallers == {t \in Threads : t <= 2}

NextPairs ==
    \/ \E t \in RowCallers : ServeRequestLock(t) /\ Uncounted
    \/ \E t \in RowCallers : ServeRequestCheck(t) /\ Uncounted
    \/ \E t \in RowCallers : SleepReturns(t) /\ Uncounted
    \/ \E t \in RowCallers : newRequestLock(t) /\ Uncounted
    \/ \E t \in RowCallers : newRequestBody(t) /\ Uncounted
    \/ \E t \in RowCallers, state \in EndStates :
          EndRequestNil(t, state) /\ Uncounted
    \/ \E t \in RowCallers : EndRequestLock(t) /\ Uncounted
    \/ \E t \in RowCallers, state \in EndStates : EndRequestCounted(t, state)
    \/ \E t \in RowCallers : NextRequest(t) /\ Uncounted
    \/ Tick /\ Uncounted

SpecPairs == Init /\ [][NextPairs]_vars

\* ----- what the properties speak of

\* the latest step was caller last.thread's locked test in ServeRequest
JustTested == last.op = "test"

\* the latest step was caller last.thread's locked body of newRequest
JustAdmitted == last.op = "admit"

\* the latest step was caller last.thread's locked body of EndRequest
JustReleased == last.op = "end"

\* the latest step was caller last.thread's EndRequest(nil, last.state)
JustReleasedNil == last.op = "nil"

\* the callers that hold a handle ServeRequest returned and EndRequest has
\* not yet taken off the count
Holding(t) == \/ pc[t] = "Returned" /\ req[t].valid
              \/ pc[t] = "EndRequestBody"

\* the latest step left activeRequestsCount, currentMaxRequestsLevel and
\* predictedDuration as it found them
ControllerAsFound ==
    /\ activeRequestsCount = last.active
    /\ currentMaxRequestsLevel = last.level
    /\ predictedDuration = last.predicted

\* ServeRequest has returned (nil, "limit is reached, ...") to caller t
Denied(t) == pc[t] = "Returned" /\ req[t] = NilRequest /\ err[t] = LimitError

\* ----- C1
\* C1: an admission never raises activeRequestsCount above
\* currentMaxRequestsLevel (the test and the increment are one atomic step),
\* so N+1 concurrent ServeRequest(true) calls on a level of N admit only N.
C1_AdmissionWithinCeiling ==
    JustAdmitted => activeRequestsCount <= currentMaxRequestsLevel

\* ----- C2
\* C2: with maxRequests >= minRequests >= 1, currentMaxRequestsLevel stays
\* within [minRequests, maxRequests] in every reachable state.
C2_CeilingWithinBounds ==
    (maxRequests >= minRequests /\ minRequests >= 1)
        => (minRequests <= currentMaxRequestsLevel
            /\ currentMaxRequestsLevel <= maxRequests)

\* an EndRequest(Canceled) has just lowered the level onto the floor
C2_Witness ==
    /\ JustReleased
    /\ last.state = endRequestStateCanceled
    /\ last.level > minRequests
    /\ currentMaxRequestsLevel = minRequests

C4_ErrorKeepsPrediction ==
    (JustReleased /\ last.state = endRequestStateError)
        => predictedDuration = last.predicted

\* an EndRequest(Error) that took longer than predicted has just left the
\* prediction as it was
C4_Witness ==
    /\ JustReleased
    /\ last.state = endRequestStateError
    /\ last.elapsed > last.predicted
    /\ predictedDuration = last.predicted

\* ----- C5
\* C5: activeRequestsCount is its initial value, 0, plus the number of
\* handles issued and not yet released; so it is never negative, and it is
\* back at 0 when every issued handle has been released.
C5_CountIsOutstandingHandles ==
    /\ activeRequestsCount = Cardinality({t \in Threads : Holding(t)})
    /\ activeRequestsCount >= 0

\* the only outstanding handle has just been released while another caller
\* had been denied: the count is back at its initial value
C5_Witness ==
    /\ JustReleased
    /\ last.active = 1
    /\ activeRequestsCount = 0
    /\ \E t \in Threads : t # last.thread /\ pc[t] = "Done" /\ ~req[t].valid

\* ----- C6
\* C6: a ServeRequest(true) that finds the limit reached with
\* predictedDuration <= waitTime sleeps for the predictedDuration it read,
\* and if the limit is still reached at the re-check it returns nil with the
\* client error, having slept exactly once, changing no controller field.
C6_DeniedAfterOneSleep ==
    /\ (/\ JustTested
        /\ last.initial
        /\ last.active >= last.level
        /\ last.predicted <= waitTime)
         => /\ pc[last.thread] = "Sleep"
            /\ dur[last.thread] = last.predicted
            /\ sleepLeft[last.thread] = last.predicted
            /\ sleeps[last.thread] = 1
            /\ slept[last.thread] = 0
            /\ ControllerAsFound
    /\ \A t \in Threads :
         (pc[t] \in {"ServeRequest", "ServeRequestCheck"} /\ sleeps[t] >= 1)
             => (slept[t] = dur[t] /\ ~isInitial[t])
    /\ (JustTested /\ last.sleeps = 1 /\ last.active >= last.level)
         => /\ Denied(last.thread)
            /\ sleeps[last.thread] = 1
            /\ slept[last.thread] = dur[last.thread]
            /\ ControllerAsFound

\* a ServeRequest(true) has just returned the error after one full sleep
C6_Witness ==
    /\ JustTested
    /\ last.sleeps = 1
    /\ Denied(last.thread)
    /\ dur[last.thread] >= 1
    /\ slept[last.thread] = dur[last.thread]

\* ----- C7
\* C7: a ServeRequest call sleeps at most once, for a predictedDuration that
\* was <= waitTime when read, so the time it sleeps is at most waitTime.
C7_SleepWithinBudget ==
    \A t \in Threads :
        /\ sleeps[t] <= 1
        /\ dur[t] <= waitTime
        /\ slept[t] + (IF pc[t] = "Sleep" THEN sleepLeft[t] ELSE 0) <= waitTime
        /\ (sleeps[t] = 0) => slept[t] = 0

\* a ServeRequest has slept for the whole waitTime
C7_Witness ==
    \E t \in Threads :
        /\ pc[t] = "ServeRequest"
        /\ sleeps[t] = 1
        /\ slept[t] = waitTime

\* ----- C8
\* C8: when the limit is reached at the test and isInitial is false or
\* predictedDuration > waitTime, ServeRequest returns nil and the client
\* error at once: no sleep, no controller field changed.
C8_DeniedAtOnce ==
    (/\ JustTested
     /\ last.active >= last.level
     /\ (~last.initial \/ last.predicted > waitTime))
      => /\ Denied(last.thread)
         /\ sleeps[last.thread] = last.sleeps
         /\ slept[last.thread] = last.slept
         /\ sleepLeft[last.thread] = 0
         /\ ControllerAsFound

\* a ServeRequest(true) has just been denied without a sleep because the
\* prediction exceeds waitTime
C8_Witness ==
    /\ JustTested
    /\ last.initial
    /\ last.active >= last.level
    /\ last.predicted > waitTime
    /\ Denied(last.thread)
    /\ sleeps[last.thread] = 0

\* ----- C9
\* C9: when activeRequestsCount < currentMaxRequestsLevel at the locked test,
\* ServeRequest goes on to newRequest without sleeping and returns a handle
\* and a nil error, raising activeRequestsCount by exactly 1, whatever
\* isInitial is.
C9_AdmitsBelowCeiling ==
    /\ (JustTested /\ last.active < last.level)
         => /\ pc[last.thread] = "newRequest"
            /\ sleeps[last.thread] = last.sleeps
            /\ slept[last.thread] = last.slept
            /\ sleepLeft[last.thread] = 0
    /\ \A t \in Threads :
         pc[t] \in {"newRequest", "newRequestBody"} => sleepLeft[t] = 0
    /\ JustAdmitted
         => /\ pc[last.thread] = "Returned"
            /\ req[last.thread].valid
            /\ err[last.thread] = NoError
            /\ sleeps[last.thread] = last.sleeps
            /\ slept[last.thread] = last.slept
            /\ activeRequestsCount = last.active + 1

\* a ServeRequest that never slept has just returned a handle
C9_Witness ==
    /\ JustAdmitted
    /\ pc[last.thread] = "Returned"
    /\ req[last.thread].valid
    /\ err[last.thread] = NoError
    /\ sleeps[last.thread] = 0
    /\ activeRequestsCount = last.active + 1

\* ----- C10
\* C10: EndRequest(handle, OK) raises currentMaxRequestsLevel by exactly 1
\* below maxRequests and leaves it unchanged at maxRequests.
C10_OkRaisesUpToMax ==
    (JustReleased /\ last.state = endRequestStateOK)
        => /\ last.level < maxRequests
                => currentMaxRequestsLevel = last.level + 1
           /\ last.level = maxRequests
                => currentMaxRequestsLevel = maxRequests

\* an EndRequest(OK) has just raised the level by one
C10_Witness ==
    /\ JustReleased
    /\ last.state = endRequestStateOK
    /\ last.level < maxRequests
    /\ currentMaxRequestsLevel = last.level + 1

\* ----- C11
\* C11: EndRequest(handle, Canceled) with currentMaxRequestsLevel > minRequests
\* and (elapsed > predictedDuration or elapsed > waitTime) lowers the level by
\* (level - minRequests) / 2, and that reduction is at least 1.
C11_SlowCancelLowersAtLeastOne ==
    (/\ JustReleased
     /\ last.state = endRequestStateCanceled
     /\ last.level > minRequests
     /\ (last.elapsed > last.predicted \/ last.elapsed > waitTime))
      => /\ currentMaxRequestsLevel
               = last.level - ((last.level - minRequests) \div 2)
         /\ last.level - currentMaxRequestsLevel >= 1

\* ----- C12
\* C12: EndRequest(handle, Canceled) with currentMaxRequestsLevel > minRequests,
\* elapsed <= predictedDuration and elapsed <= waitTime lowers the level by
\* exactly 1.
C12_FastCancelLowersByOne ==
    (/\ JustReleased
     /\ last.state = endRequestStateCanceled
     /\ last.level > minRequests
     /\ last.elapsed <= last.predicted
     /\ last.elapsed <= waitTime)
      => currentMaxRequestsLevel = last.level - 1

\* an EndRequest(Canceled) that took no longer than predicted and no longer
\* than waitTime has just taken one off a level above minRequests
C12_Witness ==
    /\ JustReleased
    /\ last.state = endRequestStateCanceled
    /\ last.level > minRequests
    /\ last.elapsed <= last.predicted
    /\ last.elapsed <= waitTime
    /\ currentMaxRequestsLevel = last.level - 1

\* ----- C13
\* C13: an EndRequest(handle, Canceled) that finds currentMaxRequestsLevel =
\* minRequests leaves it there, whatever the elapsed time; so no sequence of
\* them moves the level off minRequests.
C13_CancelKeepsFloor ==
    (/\ JustReleased
     /\ last.state = endRequestStateCanceled
     /\ last.level = minRequests)
      => currentMaxRequestsLevel = minRequests

\* an EndRequest(Canceled) that took longer than waitTime has just found
\* the level at minRequests, below maxRequests, and left it there
C13_Witness ==
    /\ JustReleased
    /\ last.state = endRequestStateCanceled
    /\ last.level = minRequests
    /\ minRequests < maxRequests
    /\ last.elapsed > waitTime
    /\ currentMaxRequestsLevel = minRequests

\* ----- C14
\* C14: EndRequest(handle, OK or Canceled) with elapsed >= predictedDuration
\* sets predictedDuration to exactly elapsed.
C14_SlowerSetsPrediction ==
    (/\ JustReleased
     /\ last.state \in {endRequestStateOK, endRequestStateCanceled}
     /\ last.elapsed >= last.predicted)
      => predictedDuration = last.elapsed

\* an EndRequest(OK) that took longer than predicted has just raised the
\* prediction to its elapsed time
C14_Witness ==
    /\ JustReleased
    /\ last.state = endRequestStateOK
    /\ last.elapsed > last.predicted
    /\ predictedDuration = last.elapsed

\* ----- C15
\* C15 as claimed: EndRequest(handle, OK or Canceled) with elapsed <
\* predictedDuration sets predictedDuration to p - (elapsed + p) / 2, p the
\* prior value, and the new value is strictly smaller than p.
C15_FasterLowersPredictionStrictly ==
    (/\ JustReleased
     /\ last.state \in {endRequestStateOK, endRequestStateCanceled}
     /\ last.elapsed < last.predicted)
      => /\ predictedDuration
               = last.predicted - ((last.elapsed + last.predicted) \div 2)
         /\ predictedDuration < last.predicted

\* C15 amended: EndRequest(handle, OK or Canceled) with 0 <= elapsed <
\* predictedDuration sets predictedDuration to p - (elapsed + p) / 2; the new
\* value is never larger than p, and it is strictly smaller than p unless
\* p is one time unit and elapsed is 0, where it stays p.
C15_FasterLowersPrediction ==
    (/\ JustReleased
     /\ last.state \in {endRequestStateOK, endRequestStateCanceled}
     /\ last.elapsed < last.predicted)
      => /\ predictedDuration
               = last.predicted - ((last.elapsed + last.predicted) \div 2)
         /\ predictedDuration <= last.predicted
         /\ (last.predicted = 1 /\ last.elapsed = 0)
              => predictedDuration = last.predicted
         /\ ~(last.predicted = 1 /\ last.elapsed = 0)
              => predictedDuration < last.predicted

\* an EndRequest(Canceled) that took a positive time, shorter than
\* predicted, has just lowered the prediction
C15_Witness ==
    /\ JustReleased
    /\ last.state = endRequestStateCanceled
    /\ last.elapsed > 0
    /\ last.elapsed < last.predicted
    /\ predictedDuration < last.predicted

\* ----- C16
\* every RatelimitHandler(maxR, minR, wait) with wait >= 0 returns an object
\* with predictedDuration > 0
ConstructedPredictionPositive ==
    \A maxR \in 0..MaxArg, minR \in 0..MaxArg, wait \in 0..MaxArg :
        RatelimitHandler(maxR, minR, wait).predictedDuration > 0

\* C16: predictedDuration > 0 after RatelimitHandler with any waitTime >= 0
\* and after every EndRequest, whatever the endState and the elapsed time;
\* the lowering branch, taken only with elapsed < predictedDuration, yields
\* a strictly positive value.
C16_PredictionPositive ==
    /\ ConstructedPredictionPositive
    /\ predictedDuration > 0
    /\ (/\ JustReleased
        /\ last.state # endRequestStateError
        /\ last.elapsed < last.predicted)
         => predictedDuration >= 1

\* an EndRequest(OK) as long as predicted less one time unit has just
\* lowered the prediction, which is still positive
C16_Witness ==
    /\ JustReleased
    /\ last.state = endRequestStateOK
    /\ last.elapsed + 1 = last.predicted
    /\ last.elapsed >= 1
    /\ predictedDuration >= 1

\* ----- C19
\* C19: EndRequest(nil, endState) changes nothing, whatever endState is:
\* activeRequestsCount, currentMaxRequestsLevel and predictedDuration are as
\* before, and the caller does not hold rObj.mux when it returns.
C19_NilReleaseIsNoOp ==
    JustReleasedNil
        => /\ ControllerAsFound
           /\ mux # last.thread
           /\ pc[last.thread] = "Done"

\* an EndRequest(nil, Canceled) has just returned while another caller holds
\* a handle, and the count still shows that handle
C19_Witness ==
    /\ JustReleasedNil
    /\ last.state = endRequestStateCanceled
    /\ last.active = 1
    /\ activeRequestsCount = 1
    /\ mux = NoThread

\* ----- C17
\* C17: RatelimitHandler replaces every zero argument by its default
\* (maxRequests 15, minRequests 2, waitTime 3 s) and keeps every non-zero
\* argument; the object it returns has currentMaxRequestsLevel = maxRequests,
\* predictedDuration = waitTime and activeRequestsCount = 0.
\* RatelimitHandlerDefault returns what RatelimitHandler(0, 0, 0) returns.
C17_ConstructorDefaults ==
    /\ call.fn = "RatelimitHandler"
         => /\ maxRequests = (IF call.maxRequests = 0 THEN 15
                              ELSE call.maxRequests)
            /\ minRequests = (IF call.minRequests = 0 THEN 2
                              ELSE call.minRequests)
            /\ waitTime = (IF call.waitTime = 0 THEN 3 ELSE call.waitTime)
            /\ currentMaxRequestsLevel = maxRequests
            /\ predictedDuration = waitTime
            /\ activeRequestsCount = 0
    /\ call.fn = "RatelimitHandlerDefault"
         => /\ rObj = <<0, 15, 2, 15, 3, 3>>
            /\ LET o == RatelimitHandler(0, 0, 0)
               IN  rObj = <<o.activeRequestsCount, o.maxRequests, o.minRequests,
                            o.currentMaxRequestsLevel, o.predictedDuration,
                            o.waitTime>>

\* RatelimitHandler(0, 1, 0) has just returned: the zero maxRequests and
\* waitTime got their defaults, minRequests was kept
C17_Witness ==
    /\ call = Called("RatelimitHandler", 0, 1, 0)
    /\ rObj = <<0, 15, 1, 15, 3, 3>>

\* ----- C18
\* C18: for all non-negative arguments the object RatelimitHandler returns
\* has maxRequests >= minRequests >= 1 and
\* minRequests <= currentMaxRequestsLevel <= maxRequests.
C18_ConstructedWithinBounds ==
    (/\ call.fn = "RatelimitHandler"
     /\ call.maxRequests >= 0
     /\ call.minRequests >= 0
     /\ call.waitTime >= 0)
      => /\ maxRequests >= minRequests
         /\ minRequests >= 1
         /\ minRequests <= currentMaxRequestsLevel
         /\ currentMaxRequestsLevel <= maxRequests

\* ----- C20
\* the latest step returned from the ServeHTTP of a request that ServeRequest
\* had returned a handle to
JustServed == event.returns /\ req[event.thread].valid

\* the values Parse, PrepareQuery and the execution can end an admitted
\* request with
Endings == {ParseError, PrepareError, ExecuteError, ContextCanceled, NoError}

EndStateOf(e) ==
    IF e = NoError THEN endRequestStateOK
    ELSE IF ErrorCause(e) = ContextCanceled THEN endRequestStateCanceled
    ELSE endRequestStateError

\* what ServeHTTP has to answer for each endState: the value, nothing, the
\* error
ResponseOf(state) ==
    IF state = endRequestStateOK THEN "Data"
    ELSE IF state = endRequestStateCanceled THEN "none"
    ELSE "Errors"

\* C21: ServeHTTP ends an admitted request with endRequestStateOK exactly
\* when the execution returned no error, with endRequestStateCanceled exactly
\* when the cause of the execution's error is context.Canceled, and with
\* endRequestStateError for every other error (Parse, PrepareQuery, any
\* other error of the execution); that endState is the one EndRequest runs
\* with.
C21_EndStateFollowsError ==
    /\ (event.decided /\ req[event.thread].valid)
         => /\ event.handler.endStateValue = EndStateOf(event.err)
            /\ event.handler.response = ResponseOf(EndStateOf(event.err))
            /\ (event.err \in {ParseError, PrepareError})
                 => event.handler.runner = "none"
            /\ (event.err \in {ExecuteError, ContextCanceled, DeadlineExceeded})
                 => event.handler.runner = "running"
    /\ \A t \in Threads :
         (http[t].stage = "EndRequest" /\ req[t].valid)
            => http[t].response = ResponseOf(http[t].endStateValue)
    /\ JustServed
         => /\ JustReleased
            /\ last.thread = event.thread
            /\ last.state = event.handler.endStateValue
            /\ event.handler.response = ResponseOf(last.state)

\* the execution of a request has failed with an error that is no
\* cancellation, and its EndRequest has just run with endRequestStateError
C21_Witness ==
    /\ JustServed
    /\ JustReleased
    /\ last.state = endRequestStateError
    /\ event.handler.response = "Errors"
    /\ event.handler.runner = "stopped"

\* ----- C22
\* C22: a request whose execution ends with an error of cause
\* context.DeadlineExceeded (the deadline of the caller's context has passed;
\* the cause is not context.Canceled) is ended with endRequestStateCanceled.
C22_DeadlineExceededIsCanceled ==
    (/\ event.decided
     /\ req[event.thread].valid
     /\ ErrorCause(event.err) = DeadlineExceeded)
       => /\ event.handler.stage = "EndRequest"
          /\ event.handler.endStateValue = endRequestStateCanceled

\* ----- C23
\* the latest step answered a request that failed the checks at the top of
\* ServeHTTP
JustRejected == event.decided /\ event.err \in EntryErrors

\* C23: ServeHTTP checks the method, the body and its JSON before it calls
\* ServeRequest: a request that fails a check never calls ServeRequest, ends
\* with EndRequest(nil, ...), and leaves activeRequestsCount,
\* currentMaxRequestsLevel and predictedDuration as they were.
C23_RejectedBeforeServeRequest ==
    /\ JustRejected
         => /\ event.returns
            /\ event.handler.admits = 0
            /\ event.handler.request = NilRequest
            /\ event.handler.nilReleases = 1
            /\ event.handler.releases = 0
            /\ JustReleasedNil
            /\ last.thread = event.thread
            /\ ControllerAsFound
            /\ pc[event.thread] = "Done"
            /\ req[event.thread] = NilRequest
    /\ \A t \in Threads :
         /\ http[t].stage = "ServeHTTP"
              => http[t].admits = 0 /\ pc[t] = "Done" /\ req[t] = NilRequest
         /\ pc[t] # "Done"
              => http[t].admits = 1 /\ http[t].stage # "ServeHTTP"

\* a request with a body that is no JSON has just been answered while
\* another request holds a handle
C23_Witness ==
    /\ JustRejected
    /\ event.err = InvalidJSONError
    /\ event.handler.written = 1
    /\ activeRequestsCount = 1

\* ----- C24
\* the latest step answered the error h.ratelimit.ServeRequest(true) returned
JustRefused == event.decided /\ event.err = LimitError

\* C24: when ServeRequest returns nil and an error, ServeHTTP answers the
\* request with that error and returns: Parse, PrepareQuery and the
\* execution are not called, ServeRequest is not called again, EndRequest is
\* called with nil only, and the request leaves activeRequestsCount,
\* currentMaxRequestsLevel and predictedDuration as they were.
C24_RefusedIsAnsweredOnly ==
    /\ JustRefused
         => /\ event.returns
            /\ event.handler.response = "Errors"
            /\ event.handler.written = 1
            /\ event.handler.admits = 1
            /\ event.handler.parses = 0
            /\ event.handler.runner = "none"
            /\ event.handler.request = NilRequest
            /\ event.handler.nilReleases = 1
            /\ event.handler.releases = 0
            /\ JustReleasedNil
            /\ last.thread = event.thread
            /\ ControllerAsFound
            /\ pc[event.thread] = "Done"
            /\ req[event.thread] = NilRequest
    /\ JustTested => ControllerAsFound
    /\ \A t \in Threads :
         /\ http[t].admits <= 1
         /\ Denied(t) => http[t].stage = "ServeRequest" /\ http[t].parses = 0

\* ServeHTTP has just answered the error of ServeRequest and returned,
\* while the request that took the last place still holds its handle
C24_Witness ==
    /\ JustRefused
    /\ event.returns
    /\ event.handler.written = 1
    /\ activeRequestsCount = currentMaxRequestsLevel
    /\ \E t \in Threads : Holding(t)

\* ----- C25
\* C25: when the cause of the execution's error is context.Canceled,
\* ServeHTTP writes no response and does not call the errorHandler, and
\* still calls EndRequest(req, endRequestStateCanceled).
C25_CanceledIsSilent ==
    /\ (/\ event.decided
        /\ event.err # NoError
        /\ ErrorCause(event.err) = ContextCanceled)
         => /\ event.handler.stage = "EndRequest"
            /\ event.handler.request = req[event.thread]
            /\ req[event.thread].valid
            /\ event.handler.endStateValue = endRequestStateCanceled
            /\ event.handler.response = "none"
            /\ event.handler.hooks = 0
            /\ event.handler.written = 0
    /\ \A t \in Threads :
         (http[t].stage = "EndRequest"
          /\ http[t].endStateValue = endRequestStateCanceled)
            => /\ http[t].response = "none"
               /\ http[t].hooks = 0
               /\ http[t].written = 0
    /\ (JustServed /\ event.handler.endStateValue = endRequestStateCanceled)
         => /\ event.handler.hooks = 0
            /\ event.handler.written = 0
            /\ event.handler.releases = 1
            /\ JustReleased
            /\ last.state = endRequestStateCanceled

\* ServeHTTP has just returned from a request whose execution was canceled:
\* nothing written, no errorHandler call, the slower-than-waitTime
\* EndRequest(req, endRequestStateCanceled) done
C25_Witness ==
    /\ JustServed
    /\ JustReleased
    /\ last.state = endRequestStateCanceled
    /\ last.elapsed > waitTime
    /\ event.handler.written = 0
    /\ event.handler.hooks = 0
    /\ event.handler.runner = "stopped"

\* ----- C26
\* the request of thread t has reached reactive.NewRerunner and is inside
\* its call h.ratelimit.EndRequest(req, endStateValue)
ReleasingExecuted(t) ==
    /\ http[t].stage = "EndRequest"
    /\ http[t].runner # "none"
    /\ pc[t] = "EndRequestBody"

\* C26: for an admitted request that reaches the execution, ServeHTTP calls
\* EndRequest only after the Rerunner that runs the execution has
\* terminated.
C26_ReleasedAfterRerunner ==
    \A t \in Threads : ReleasingExecuted(t) => http[t].runner = "stopped"

\* ----- C27
\* caller t is between a rObj.mux.Lock() and the rObj.mux.Unlock() after it
InLockedSection(t) ==
    \/ pc[t] \in {"ServeRequestCheck", "newRequestBody", "EndRequestBody"}
    \/ http[t].stage \in {"GetSimultaneousRequestsCount",
                          "GetActualRequestsLimit"}

\* the operations of the controller that read or write its fields
FieldOps == {"test", "admit", "end", "count", "limit"}

\* C27: every read and every write of activeRequestsCount,
\* currentMaxRequestsLevel and predictedDuration by ServeRequest,
\* newRequest, EndRequest, GetSimultaneousRequestsCount and
\* GetActualRequestsLimit happens while the calling thread holds rObj.mux,
\* and at most one thread holds rObj.mux at any time.
C27_FieldsUnderMutex ==
    /\ [](/\ last.op \in FieldOps => last.holder = last.thread
          /\ \A t \in Threads : InLockedSection(t) <=> mux = t
          /\ Cardinality({t \in Threads : InLockedSection(t)}) <= 1)
    /\ [][<<activeRequestsCount, currentMaxRequestsLevel,
             predictedDuration>>' # <<activeRequestsCount,
                                      currentMaxRequestsLevel,
                                      predictedDuration>>
            => /\ mux \in Threads
               /\ InLockedSection(mux)
               /\ last'.op \in {"admit", "end"}
               /\ last'.thread = mux
               /\ mux' = NoThread]_vars

\* GetActualRequestsLimit has just read currentMaxRequestsLevel under the
\* lock while another request waits for the lock in its EndRequest
C27_Witness ==
    /\ last.op = "limit"
    /\ last.holder = last.thread
    /\ mux = NoThread
    /\ \E t \in Threads :
         /\ t # last.thread
         /\ http[t].stage = "EndRequest"
         /\ pc[t] = "Returned"

\* ----- C28
\* C28: every ServeRequest call terminates under a fair scheduler: it runs
\* its locked test at most twice (the second time with isInitial = false,
\* which neither sleeps nor calls ServeRequest again) and then returns a
\* handle or the "limit is reached" error.
C28_ServeRequestTerminates ==
    /\ [](/\ JustTested
             => /\ last.sleeps <= 1
                /\ last.sleeps = 1 <=> ~last.initial
                /\ ~last.initial
                     => pc[last.thread] \in {"newRequest", "Returned"}
          /\ \A t \in Threads :
               /\ sleeps[t] <= 1
               /\ pc[t] = "Returned"
                    => \/ req[t].valid /\ err[t] = NoError
                       \/ Denied(t))
    /\ \A t \in Threads : (pc[t] = "ServeRequest") ~> (pc[t] = "Returned")

\* a ServeRequest call that slept has returned the error after its second
\* test
C28_Witness ==
    \E t \in Threads : Denied(t) /\ sleeps[t] = 1 /\ ~isInitial[t]

\* ----- C29
\* the latest step was the locked body of an EndRequest(req,
\* endRequestStateCanceled) whose elapsedTime is above waitTime
JustCanceledSlowly ==
    /\ JustReleased
    /\ last.state = endRequestStateCanceled
    /\ last.elapsed > waitTime

\* C29: from any currentMaxRequestsLevel above minRequests, EndRequest calls
\* that are all endRequestStateCanceled with an elapsedTime above waitTime,
\* one after another without end, bring currentMaxRequestsLevel down to
\* minRequests.
C29_SlowCancelsReachFloor ==
    (/\ []<>JustCanceledSlowly
     /\ []<>~JustReleased
     /\ [](JustReleased => JustCanceledSlowly))
       => <>(currentMaxRequestsLevel = minRequests)

\* ----- C30
\* the latest step was the locked body of an EndRequest that is no
\* endRequestStateError and found elapsedTime below predictedDuration
JustFasterThanPredicted ==
    /\ JustReleased
    /\ last.state \in {endRequestStateOK, endRequestStateCanceled}
    /\ last.elapsed < last.predicted

\* C30: when EndRequest lowers predictedDuration (endState OK or Canceled,
\* elapsedTime below predictedDuration), it lowers it by less than
\* predictedDuration - elapsedTime, so that the new predictedDuration is
\* never below the elapsedTime.
C30_LoweredByLessThanGap ==
    JustFasterThanPredicted
       => /\ last.predicted - predictedDuration < last.predicted - last.elapsed
          /\ predictedDuration >= last.elapsed

\* ----- C31
\* C31: when EndRequest lowers predictedDuration from p (elapsedTime from 0
\* up and below p), the new predictedDuration lies strictly between 0 and
\* p/2.
C31_LoweredBelowHalf ==
    JustFasterThanPredicted
       => /\ predictedDuration > 0
          /\ 2 * predictedDuration < last.predicted

\* C31, as the code has it: the new predictedDuration is above 0 and at most
\* half of p - elapsedTime, rounded up; it is strictly below p/2 from an
\* elapsedTime of two units on.
C31_LoweredToHalfRoundedUp ==
    JustFasterThanPredicted
       => /\ predictedDuration > 0
          /\ 2 * predictedDuration <= last.predicted - last.elapsed + 1
          /\ last.elapsed >= 2 => 2 * predictedDuration < last.predicted

\* an EndRequest that is no error has just found an elapsedTime of 0 under
\* a predictedDuration of 3 units and left 2, more than half of 3
C31_Witness ==
    /\ JustFasterThanPredicted
    /\ last.predicted = 3
    /\ last.elapsed = 0
    /\ predictedDuration = 2

\* ----- C32
\* C32: within one EndRequest the level is updated before predictedDuration:
\* the test elapsedTime > predictedDuration of a canceled request reads the
\* predictedDuration from before this EndRequest, never the one it writes.
C32_LevelReadsOldPrediction ==
    (/\ JustReleased
     /\ last.state = endRequestStateCanceled
     /\ last.level > minRequests)
       => /\ currentMaxRequestsLevel =
                IF last.elapsed > last.predicted \/ last.elapsed > waitTime
                THEN last.level - GoDiv(last.level - minRequests, 2)
                ELSE last.level - 1
          /\ predictedDuration =
                PredictedAfterEnd(last.predicted, last.elapsed, last.state)

\* a canceled request took longer than predicted, within waitTime: the
\* level, one above minRequests, was halved by 0 though the elapsedTime is
\* not above the predictedDuration this EndRequest wrote
C32_Witness ==
    /\ JustReleased
    /\ last.state = endRequestStateCanceled
    /\ last.level = minRequests + 1
    /\ last.elapsed > last.predicted
    /\ last.elapsed <= waitTime
    /\ predictedDuration = last.elapsed
    /\ currentMaxRequestsLevel = last.level

\* ----- C39
\* the latest step was a call of initiate() on the controller in use
JustInitiated == last.op = "initiate"

\* C39: initiate() called again on a controller whose maxRequests,
\* minRequests, waitTime and predictedDuration are not zero changes no field;
\* it does not set predictedDuration back to waitTime.
C39_InitiateIdempotent ==
    JustInitiated
       => /\ ControllerAsFound
          /\ maxRequests = call.maxRequests
          /\ minRequests = call.minRequests
          /\ waitTime = call.waitTime

\* initiate() has just been called on a controller whose level is below
\* maxRequests and whose predictedDuration is no longer the waitTime it was
\* built with
C39_Witness ==
    /\ JustInitiated
    /\ predictedDuration # waitTime
    /\ currentMaxRequestsLevel < maxRequests
    /\ ControllerAsFound

JustRetested == JustTested /\ ~last.initial /\ last.sleeps > 0

\* C34: a ServeRequest that slept goes on to newRequest if and only if the
\* activeRequestsCount it finds under the lock after the sleep is below the
\* currentMaxRequestsLevel it finds there; otherwise it returns nil and the
\* limit error, without a second sleep
C34_RetestDecides ==
    JustRetested =>
        IF last.active < last.level
        THEN /\ pc[last.thread] = "newRequest"
             /\ err[last.thread] = NoError
        ELSE /\ pc[last.thread] = "Returned"
             /\ ~req[last.thread].valid
             /\ err[last.thread] = LimitError

\* C34 happens: a caller that found no place free before its sleep finds one
\* after it and goes on to newRequest
C34_Witness ==
    /\ JustRetested
    /\ last.slept > 0
    /\ last.active < last.level
    /\ pc[last.thread] = "newRequest"

\* caller t is at a rObj.mux.Lock()
AtLock(t) ==
    \/ pc[t] \in {"ServeRequest", "newRequest"}
    \/ http[t].stage \in {"compute", "RequestsLimit"}
    \/ http[t].stage = "EndRequest" /\ http[t].request.valid

\* the step of caller t that takes rObj.mux
Locks(t) ==
    \/ ServeRequestLock(t) /\ LimiterOnly
    \/ newRequestLock(t) /\ LimiterOnly
    \/ GetSimultaneousRequestsCountLock(t)
    \/ GetActualRequestsLimitLock(t)
    \/ ServeHTTPEndRequestLock(t)

\* the step of caller t that runs a locked section to its rObj.mux.Unlock()
Unlocks(t) ==
    \/ ServeRequestCheck(t) /\ LimiterOnly
    \/ newRequestBody(t) /\ LimiterOnly
    \/ GetSimultaneousRequestsCount(t)
    \/ \E e \in ExecuteResults : compute(t, e)
    \/ \E marshalled \in BOOLEAN : ServeHTTPEndRequestBody(t, marshalled)

\* C35: no caller holds rObj.mux during its time.Sleep; a caller holds it
\* only between a Lock and the Unlock that follows, never after
\* ServeRequest, newRequest, EndRequest or an accessor has returned; the
\* holder can always go on to its Unlock, and when nobody holds it every
\* caller at a Lock can take it, whoever is asleep: the controller never
\* blocks its callers for good
C35_NothingBlocksTheMutex ==
    /\ \A t \in Threads : pc[t] = "Sleep" => mux # t
    /\ \A t \in Threads : mux = t => InLockedSection(t) /\ ENABLED Unlocks(t)
    /\ mux = NoThread => \A t \in Threads : AtLock(t) => ENABLED Locks(t)

\* C35 happens: an EndRequest has run from Lock to Unlock while another
\* caller is in its time.Sleep, and a third call can take the free mutex
C35_Witness ==
    /\ JustReleased
    /\ mux = NoThread
    /\ \E t \in Threads :
         /\ t # last.thread
         /\ pc[t] = "Sleep"
         /\ sleepLeft[t] > 0

\* C36: no step changes maxRequests, minRequests or waitTime; a step that
\* changes currentMaxRequestsLevel or predictedDuration is the body of an
\* EndRequest; the locked test of ServeRequest, passed or not, before or
\* after the sleep, changes no field; the body of newRequest adds one to
\* activeRequestsCount and changes no other field; no other step changes
\* activeRequestsCount
C36_OnlyEndRequestAdjusts ==
    [][/\ config' = config
       /\ <<currentMaxRequestsLevel, predictedDuration>>'
              # <<currentMaxRequestsLevel, predictedDuration>>
            => last'.op = "end"
       /\ last'.op = "test" => rObj' = rObj
       /\ last'.op = "admit"
            => /\ activeRequestsCount' = activeRequestsCount + 1
               /\ currentMaxRequestsLevel' = currentMaxRequestsLevel
               /\ predictedDuration' = predictedDuration
       /\ activeRequestsCount' # activeRequestsCount
            => last'.op \in {"admit", "end"}]_vars

\* C36 happens: newRequest has admitted a caller after its sleep, on a
\* controller whose level and prediction EndRequest calls have moved away
\* from what RatelimitHandler set
C36_Witness ==
    /\ JustAdmitted
    /\ last.sleeps > 0
    /\ currentMaxRequestsLevel < maxRequests
    /\ predictedDuration # waitTime
    /\ currentMaxRequestsLevel = last.level
    /\ predictedDuration = last.predicted

\* the latest step wrote a response for a request that ServeRequest had
\* returned a handle to
JustAnswered == JustServed /\ event.handler.written > 0

\* C38: a request that holds a handle and has not yet run its EndRequest,
\* whether writeResponse took it there with a value, a Parse error, a
\* PrepareQuery error or an execution error, has had nothing written to its
\* client; and the step that writes its response is the one in which its
\* EndRequest has run to the Unlock, so that activeRequestsCount is one less
\* than that EndRequest found it when the response is written, which
\* happens once
C38_ReleasedBeforeWritten ==
    /\ \A t \in Threads :
          http[t].stage = "EndRequest" /\ req[t].valid => http[t].written = 0
    /\ JustAnswered
         => /\ JustReleased
            /\ last.thread = event.thread
            /\ last.holder = event.thread
            /\ mux # event.thread
            /\ event.handler.releases = 1
            /\ event.handler.written = 1
            /\ activeRequestsCount = last.active - 1

\* C38 happens: the error of Parse or PrepareQuery has been written to the
\* client of a request whose place is free again
C38_Witness ==
    /\ JustAnswered
    /\ event.handler.response = "Errors"
    /\ event.handler.runner = "none"
    /\ event.handler.releases = 1
    /\ activeRequestsCount = 0

\* the latest step was the body of the second EndRequest with one handle
JustReleasedAgain == last.op = "again"

\* C37: a second EndRequest with a handle whose EndRequest has returned runs
\* to its Unlock and returns like the first: it takes one more from
\* activeRequestsCount, below zero if need be, and adjusts
\* currentMaxRequestsLevel and predictedDuration once more by its endState
\* and the time since the handle was made
C37_SecondEndRequestCounts ==
    JustReleasedAgain =>
        /\ pc[last.thread] = "EndedTwice"
        /\ mux = NoThread
        /\ activeRequestsCount = last.active - 1
        /\ currentMaxRequestsLevel =
               LevelAfterEnd(last.level, minRequests, maxRequests,
                             last.predicted, waitTime, last.elapsed, last.state)
        /\ predictedDuration =
               PredictedAfterEnd(last.predicted, last.elapsed, last.state)

\* C37 happens: the second EndRequest has left activeRequestsCount below
\* zero and has moved both the level and the prediction
C37_Witness ==
    /\ JustReleasedAgain
    /\ activeRequestsCount < 0
    /\ currentMaxRequestsLevel # last.level
    /\ predictedDuration # last.predicted

====
